---- MODULE Spec2Model ----
(***************************************************************************)
(* Link-preview metadata extraction of tally-app (src-tauri/src/lib.rs):   *)
(* the command fetch_og_metadata and the text routines it calls.           *)
(*                                                                         *)
(* A Rust &str is modelled as the sequence of its UTF-8 bytes.  An ASCII   *)
(* byte is the one-character string of its character; a byte of a          *)
(* multi-byte character is the two hex digits of its value ("C3","A9" are  *)
(* the two bytes of U+00E9).  Offsets are 0-based byte offsets as in the   *)
(* source; Option<usize> is an offset or NotFound; Option<String> is a     *)
(* record with a tag; a slice at an offset that is not a character         *)
(* boundary panics, which the model records as the tag "Panic".            *)
(***************************************************************************)
EXTENDS Integers, Sequences, FiniteSets, TLC

VARIABLES
  pc,      \* where the command stands: start, sending, reading, done
  url,     \* the url argument
  status,  \* the status of the response, 0 before there is one
  html,    \* the body text() returned
  result,  \* what the command returned (or that it panicked)
  sends,   \* how many GETs were sent
  arg,     \* the argument of a text routine called on its own
  out      \* what that routine returned

vars == <<pc, url, status, html, result, sends, arg, out>>

(*************************** numbers of the source *************************)
OgWindowBefore == 200
OgWindowAfter == 300
FaviconWindowBefore == 300
FaviconWindowAfter == 100
HeadLimit == 20000
ContentAttrLen == 9
HrefAttrLen == 6
SchemeSepLen == 3

(***************************** str primitives ******************************)
NotFound == -1

None == [tag |-> "None", val |-> <<>>]
Some(v) == [tag |-> "Some", val |-> v]
Panicked == [tag |-> "Panic", val |-> <<>>]

Min2(a, b) == IF a < b THEN a ELSE b

\* the bytes 0x80..0xBF that occur in the modelled inputs
ContinuationBytes == {"A9", "80", "BF"}

\* s[i..] starts with p (i is a 0-based offset)
MatchAt(s, p, i) == \A k \in 1..Len(p) : s[i + k] = p[k]

\* str::find: the offset of the first match
find(s, p) ==
  LET hits == {i \in 0..(Len(s) - Len(p)) : MatchAt(s, p, i)}
  IN  IF hits = {} THEN NotFound ELSE CHOOSE i \in hits : \A j \in hits : i <= j

\* str::rfind: the offset of the last match
rfind(s, p) ==
  LET hits == {i \in 0..(Len(s) - Len(p)) : MatchAt(s, p, i)}
  IN  IF hits = {} THEN NotFound ELSE CHOOSE i \in hits : \A j \in hits : i >= j

starts_with(s, p) == Len(p) <= Len(s) /\ MatchAt(s, p, 0)

is_char_boundary(s, i) ==
  \/ i = 0
  \/ i = Len(s)
  \/ (0 < i /\ i < Len(s) /\ s[i + 1] \notin ContinuationBytes)

\* &s[a..b] does not panic
CanSlice(s, a, b) == a <= b /\ b <= Len(s) /\ is_char_boundary(s, a) /\ is_char_boundary(s, b)

\* &s[a..b], &s[a..], &s[..b]
Slice(s, a, b) == SubSeq(s, a + 1, b)
SliceFrom(s, a) == SubSeq(s, a + 1, Len(s))
SliceTo(s, b) == SubSeq(s, 1, b)

\* str::replace: every non-overlapping match, left to right
RECURSIVE replace(_, _, _)
replace(s, from, to) ==
  LET i == find(s, from)
  IN  IF i = NotFound THEN s
      ELSE SliceTo(s, i) \o to \o replace(SliceFrom(s, i + Len(from)), from, to)

\* str::trim_end_matches(c), str::trim_start_matches(c)
RECURSIVE trim_end_matches(_, _)
trim_end_matches(s, c) ==
  IF s # <<>> /\ s[Len(s)] = c THEN trim_end_matches(SliceTo(s, Len(s) - 1), c) ELSE s

RECURSIVE trim_start_matches(_, _)
trim_start_matches(s, c) ==
  IF s # <<>> /\ s[1] = c THEN trim_start_matches(SliceFrom(s, 1), c) ELSE s

\* the white space that occurs in the modelled inputs
WhiteSpace == {" ", "\n", "\t", "\r"}

RECURSIVE trim_end(_)
trim_end(s) == IF s # <<>> /\ s[Len(s)] \in WhiteSpace THEN trim_end(SliceTo(s, Len(s) - 1)) ELSE s

RECURSIVE trim_start(_)
trim_start(s) == IF s # <<>> /\ s[1] \in WhiteSpace THEN trim_start(SliceFrom(s, 1)) ELSE s

\* str::trim
trim(s) == trim_end(trim_start(s))

(****************************** lib.rs 197-214 *****************************)
html_escape_decode(s) ==
  replace(replace(replace(replace(replace(replace(replace(s,
    <<"&","a","m","p",";">> (* &amp; *), <<"&">>),
    <<"&","l","t",";">> (* &lt; *), <<"<">>),
    <<"&","g","t",";">> (* &gt; *), <<">">>),
    <<"&","q","u","o","t",";">> (* &quot; *), <<"\"">>),
    <<"&","#","3","9",";">> (* &#39; *), <<"'">>),
    <<"&","#","x","2","7",";">> (* &#x27; *), <<"'">>),
    <<"&","a","p","o","s",";">> (* &apos; *), <<"'">>)

get_base_url(u) ==
  LET scheme_end == find(u, <<":","/","/">> (* :// *))
  IN  IF scheme_end = NotFound THEN u
      ELSE LET path_start == find(SliceFrom(u, scheme_end + SchemeSepLen), <<"/">>)
           IN  IF path_start = NotFound THEN u
               ELSE SliceTo(u, scheme_end + SchemeSepLen + path_start)

(****************************** lib.rs 116-160 *****************************)
\* lines 128-139: the content attribute of the tag that starts tag_content
ContentOfTag(tag_content) ==
  LET tag_end == find(tag_content, <<">">>)
  IN
  IF tag_end = NotFound THEN None
  ELSE
    LET tag == SliceTo(tag_content, tag_end + 1)
        content_start == find(tag, <<"c","o","n","t","e","n","t","=","\"">> (* content=" *))
    IN
    IF content_start = NotFound THEN None
    ELSE
      LET value_start == content_start + ContentAttrLen
          value_end == find(SliceFrom(tag, value_start), <<"\"">>)
      IN
      IF value_end = NotFound THEN None
      ELSE
        LET value == Slice(tag, value_start, value_start + value_end)
        IN  IF value # <<>> THEN Some(html_escape_decode(value)) ELSE None

\* line 118
PropertyPattern(property) == <<"p","r","o","p","e","r","t","y","=","\"">> (* property=" *) \o property \o <<"\"">>

\* lines 121-122
OgWindowStart(meta_start) ==
  IF meta_start > OgWindowBefore THEN meta_start - OgWindowBefore ELSE 0

OgWindowEnd(h, meta_start) == Min2(meta_start + OgWindowAfter, Len(h))

\* line 126: where in the window the tag is taken to start
TagStart(window) == rfind(window, <<"<","m","e","t","a">> (* <meta *))

extract_og(h, property) ==
  LET meta_start == find(h, PropertyPattern(property))
  IN
  IF meta_start = NotFound THEN None
  ELSE
    LET window_start == OgWindowStart(meta_start)
        window_end == OgWindowEnd(h, meta_start)
    IN
    IF ~CanSlice(h, window_start, window_end) THEN Panicked
    ELSE
      LET window == Slice(h, window_start, window_end)
          tag_start == TagStart(window)
      IN
      IF tag_start = NotFound THEN None
      ELSE ContentOfTag(SliceFrom(window, tag_start))

extract_title(h) ==
  LET start == find(h, <<"<","t","i","t","l","e">> (* <title *))
  IN
  IF start = NotFound THEN None
  ELSE
    LET tag_end == find(SliceFrom(h, start), <<">">>)
    IN
    IF tag_end = NotFound THEN None
    ELSE
      LET content_start == start + tag_end + 1
          end == find(SliceFrom(h, content_start), <<"<","/","t","i","t","l","e",">">> (* </title> *))
      IN
      IF end = NotFound THEN None
      ELSE
        LET title == trim(Slice(h, content_start, content_start + end))
        IN  IF title # <<>> THEN Some(html_escape_decode(title)) ELSE None

(****************************** lib.rs 163-195 *****************************)
FaviconPatterns == << <<"r","e","l","=","\"","i","c","o","n","\"">> (* rel="icon" *), <<"r","e","l","=","\"","s","h","o","r","t","c","u","t"," ","i","c","o","n","\"">> (* rel="shortcut icon" *), <<"r","e","l","=","\"","a","p","p","l","e","-","t","o","u","c","h","-","i","c","o","n","\"">> (* rel="apple-touch-icon" *) >>

\* lines 177-186: the href made absolute
ResolveFaviconHref(href, base_url) ==
  IF starts_with(href, <<"h","t","t","p">> (* http *)) THEN href
  ELSE IF starts_with(href, <<"/","/">> (* // *)) THEN <<"h","t","t","p","s",":">> (* https: *) \o href
  ELSE trim_end_matches(base_url, "/") \o <<"/">> \o trim_start_matches(href, "/")

\* lines 166-190: one turn of the loop; None is "go on to the next pattern"
FaviconForPattern(h, base_url, pattern) ==
  LET pos == find(h, pattern)
  IN
  IF pos = NotFound THEN None
  ELSE
    LET window_start == IF pos > FaviconWindowBefore THEN pos - FaviconWindowBefore ELSE 0
        window_end == Min2(pos + FaviconWindowAfter, Len(h))
    IN
    IF ~CanSlice(h, window_start, window_end) THEN Panicked
    ELSE
      LET window == Slice(h, window_start, window_end)
          tag_start == rfind(window, <<"<","l","i","n","k">> (* <link *))
      IN
      IF tag_start = NotFound THEN None
      ELSE
        LET tag_content == SliceFrom(window, tag_start)
            href_start == find(tag_content, <<"h","r","e","f","=","\"">> (* href=" *))
        IN
        IF href_start = NotFound THEN None
        ELSE
          LET value_start == href_start + HrefAttrLen
              value_end == find(SliceFrom(tag_content, value_start), <<"\"">>)
          IN
          IF value_end = NotFound THEN None
          ELSE Some(ResolveFaviconHref(Slice(tag_content, value_start, value_start + value_end), base_url))

\* FaviconLoop as it would be if the first marker that occurs decided alone:
\* no turn for the next pattern once a marker has been found
RECURSIVE FaviconLoopFirstMarker(_, _, _)
FaviconLoopFirstMarker(h, base_url, k) ==
  IF k > Len(FaviconPatterns)
  THEN Some(trim_end_matches(base_url, "/") \o <<"/","f","a","v","i","c","o","n",".","i","c","o">> (* /favicon.ico *))
  ELSE IF find(h, FaviconPatterns[k]) = NotFound
       THEN FaviconLoopFirstMarker(h, base_url, k + 1)
       ELSE LET r == FaviconForPattern(h, base_url, FaviconPatterns[k])
            IN  IF r.tag = "None"
                THEN Some(trim_end_matches(base_url, "/") \o <<"/","f","a","v","i","c","o","n",".","i","c","o">> (* /favicon.ico *))
                ELSE r

\* lines 165, 191-194: the patterns in order, then the fallback
RECURSIVE FaviconLoop(_, _, _)
FaviconLoop(h, base_url, k) ==
  IF k > Len(FaviconPatterns)
  THEN Some(trim_end_matches(base_url, "/") \o <<"/","f","a","v","i","c","o","n",".","i","c","o">> (* /favicon.ico *))
  ELSE LET r == FaviconForPattern(h, base_url, FaviconPatterns[k])
       IN  IF r.tag = "None" THEN FaviconLoop(h, base_url, k + 1) ELSE r

extract_favicon(h, base_url) == FaviconLoop(h, base_url, 1)

(****************************** lib.rs 216-271 *****************************)
\* lines 242-246: the text the fields are extracted from
html_head(h) ==
  IF Len(h) > HeadLimit
  THEN IF CanSlice(h, 0, HeadLimit) THEN Some(SliceTo(h, HeadLimit)) ELSE Panicked
  ELSE Some(h)

\* ResolveOgImage as it would be without line 258: the leading "/" is kept
ResolveOgImageKeepSlash(img, base_url) ==
  IF starts_with(img, <<"h","t","t","p">> (* http *)) THEN img
  ELSE IF starts_with(img, <<"/","/">> (* // *)) THEN <<"h","t","t","p","s",":">> (* https: *) \o img
  ELSE trim_end_matches(base_url, "/") \o <<"/">> \o img

\* lines 252-260: the og:image value made absolute
ResolveOgImage(img, base_url) ==
  IF starts_with(img, <<"h","t","t","p">> (* http *)) THEN img
  ELSE IF starts_with(img, <<"/","/">> (* // *)) THEN <<"h","t","t","p","s",":">> (* https: *) \o img
  ELSE trim_end_matches(base_url, "/") \o <<"/">> \o trim_start_matches(img, "/")

\* line 251: Option::map
og_image(head, base_url) ==
  LET r == extract_og(head, <<"o","g",":","i","m","a","g","e">> (* og:image *))
  IN  IF r.tag = "Some" THEN Some(ResolveOgImage(r.val, base_url)) ELSE r

\* line 264: Option::or_else
title_field(head) ==
  LET r == extract_og(head, <<"o","g",":","t","i","t","l","e">> (* og:title *))
  IN  IF r.tag = "None" THEN extract_title(head) ELSE r

OptionFields == {"title", "description", "image", "site_name", "favicon"}

NoMeta ==
  [title |-> None, description |-> None, image |-> None, site_name |-> None,
   favicon |-> None, url |-> <<>>]

NoError == [prefix |-> "", detail |-> ""]

Pending == [kind |-> "Pending", error |-> NoError, meta |-> NoMeta]
Err(prefix, detail) == [kind |-> "Err", error |-> [prefix |-> prefix, detail |-> detail], meta |-> NoMeta]
Ok(meta) == [kind |-> "Ok", error |-> NoError, meta |-> meta]
Aborted == [kind |-> "Panic", error |-> NoError, meta |-> NoMeta]

\* lines 263-270: the struct, its fields evaluated in the order written
OgMetadata(u, head, base_url) ==
  [title |-> title_field(head),
   description |-> extract_og(head, <<"o","g",":","d","e","s","c","r","i","p","t","i","o","n">> (* og:description *)),
   image |-> og_image(head, base_url),
   site_name |-> extract_og(head, <<"o","g",":","s","i","t","e","_","n","a","m","e">> (* og:site_name *)),
   favicon |-> extract_favicon(head, base_url),
   url |-> u]

\* lines 241-270: all that runs once the body has been read
Extract(u, h) ==
  LET hh == html_head(h)
  IN  IF hh.tag = "Panic" THEN Aborted
      ELSE LET m == OgMetadata(u, hh.val, get_base_url(u))
           IN  IF \E f \in OptionFields : m[f].tag = "Panic" THEN Aborted ELSE Ok(m)

\* is_success as it would be without its upper end
is_success_no_upper(st) == 200 <= st

\* line 232: StatusCode::is_success
is_success(st) == 200 <= st /\ st < 300

\* line 233: StatusCode's Display, the code and its canonical reason
StatusDisplay(st) ==
  CASE st = 200 -> "200 OK"
    [] st = 304 -> "304 Not Modified"
    [] st = 404 -> "404 Not Found"
    [] st = 500 -> "500 Internal Server Error"
    [] OTHER -> "<unknown status code>"

(********************************* inputs **********************************)
\* how far around each slicing offset the filler lengths range
Slack == 1

Offsets == (0 - Slack)..Slack

Pad(n) == [i \in 1..n |-> "."]

EAcute == <<"C3","A9">>

TagOgTitle == <<"<","m","e","t","a"," ","p","r","o","p","e","r","t","y","=","\"","o","g",":","t","i","t","l","e","\""," ","c","o","n","t","e","n","t","=","\"","H","i","\"",">">> (* <meta property="og:title" content="Hi"> *)
TagOgTitleRev == <<"<","m","e","t","a"," ","c","o","n","t","e","n","t","=","\"","Y","o","\""," ","p","r","o","p","e","r","t","y","=","\"","o","g",":","t","i","t","l","e","\"",">">> (* <meta content="Yo" property="og:title"> *)
TagOgTitleEmpty == <<"<","m","e","t","a"," ","p","r","o","p","e","r","t","y","=","\"","o","g",":","t","i","t","l","e","\""," ","c","o","n","t","e","n","t","=","\"","\"",">">> (* <meta property="og:title" content=""> *)
TagOgTitleEnt == <<"<","m","e","t","a"," ","p","r","o","p","e","r","t","y","=","\"","o","g",":","t","i","t","l","e","\""," ","c","o","n","t","e","n","t","=","\"","R","&","a","m","p",";","D","\"",">">> (* <meta property="og:title" content="R&amp;D"> *)
TagOgTitleFar ==
  <<"<","m","e","t","a"," ","c","o","n","t","e","n","t","=","\"","F","a","r","\""," ","d","a","t","a","=","\"">> (* <meta content="Far" data=" *) \o Pad(OgWindowBefore) \o <<"\""," ","p","r","o","p","e","r","t","y","=","\"","o","g",":","t","i","t","l","e","\"",">">> (* " property="og:title"> *)
TagOgImageRel == <<"<","m","e","t","a"," ","p","r","o","p","e","r","t","y","=","\"","o","g",":","i","m","a","g","e","\""," ","c","o","n","t","e","n","t","=","\"","/","i",".","p","n","g","\"",">">> (* <meta property="og:image" content="/i.png"> *)
TagOgImageHttp == <<"<","m","e","t","a"," ","p","r","o","p","e","r","t","y","=","\"","o","g",":","i","m","a","g","e","\""," ","c","o","n","t","e","n","t","=","\"","h","t","t","p","d",".","p","n","g","\"",">">> (* <meta property="og:image" content="httpd.png"> *)
TagOgImageCdn == <<"<","m","e","t","a"," ","p","r","o","p","e","r","t","y","=","\"","o","g",":","i","m","a","g","e","\""," ","c","o","n","t","e","n","t","=","\"","/","/","c",".","i","o","/","i",".","p","n","g","\"",">">> (* <meta property="og:image" content="//c.io/i.png"> *)
TagOgDescription == <<"<","m","e","t","a"," ","p","r","o","p","e","r","t","y","=","\"","o","g",":","d","e","s","c","r","i","p","t","i","o","n","\""," ","c","o","n","t","e","n","t","=","\"","D","\"",">">> (* <meta property="og:description" content="D"> *)
TagOgSiteName == <<"<","m","e","t","a"," ","p","r","o","p","e","r","t","y","=","\"","o","g",":","s","i","t","e","_","n","a","m","e","\""," ","c","o","n","t","e","n","t","=","\"","S","\"",">">> (* <meta property="og:site_name" content="S"> *)
TagMetaName == <<"<","m","e","t","a"," ","n","a","m","e","=","\"","x","\""," ","c","o","n","t","e","n","t","=","\"","N","\"",">">> (* <meta name="x" content="N"> *)
TagTitle == <<"<","t","i","t","l","e",">"," ","T"," ","&","a","m","p",";"," ","U"," ","<","/","t","i","t","l","e",">">> (* <title> T &amp; U </title> *)
TagTitleBlank == <<"<","t","i","t","l","e",">"," ","<","/","t","i","t","l","e",">">> (* <title> </title> *)
TagLinkIcon == <<"<","l","i","n","k"," ","r","e","l","=","\"","i","c","o","n","\""," ","h","r","e","f","=","\"","/","f",".","i","c","o","\"",">">> (* <link rel="icon" href="/f.ico"> *)
TagLinkIconNoHref == <<"<","l","i","n","k"," ","r","e","l","=","\"","i","c","o","n","\"",">">> (* <link rel="icon"> *)
TagLinkShortcut == <<"<","l","i","n","k"," ","r","e","l","=","\"","s","h","o","r","t","c","u","t"," ","i","c","o","n","\""," ","h","r","e","f","=","\"","/","/","c",".","i","o","/","s",".","i","c","o","\"",">">> (* <link rel="shortcut icon" href="//c.io/s.ico"> *)
TagLinkApple == <<"<","l","i","n","k"," ","r","e","l","=","\"","a","p","p","l","e","-","t","o","u","c","h","-","i","c","o","n","\""," ","h","r","e","f","=","\"","h","t","t","p",":","/","/","c",".","i","o","/","a",".","p","n","g","\"",">">> (* <link rel="apple-touch-icon" href="http://c.io/a.png"> *)
TagLinkCss == <<"<","l","i","n","k"," ","r","e","l","=","\"","s","t","y","l","e","s","h","e","e","t","\""," ","h","r","e","f","=","\"","s",".","c","s","s","\"",">">> (* <link rel="stylesheet" href="s.css"> *)

Fragments ==
  { <<>>, EAcute, TagOgTitle, TagOgTitleRev, TagOgTitleEmpty, TagOgTitleEnt, TagOgTitleFar,
    TagOgImageRel, TagOgImageHttp, TagOgImageCdn, TagOgDescription, TagOgSiteName,
    TagMetaName, TagTitle, TagTitleBlank, TagLinkIcon, TagLinkIconNoHref,
    TagLinkShortcut, TagLinkApple, TagLinkCss }

\* what may follow a fragment in the longer documents
Followers == { <<>>, TagMetaName, TagTitle }

\* fillers that put a two-byte character next to the start of a window:
\* the marker of the fragment that follows lies 6 bytes into it
LeadIn ==
  { EAcute \o Pad(w - 2 - 6 + 1 + d) : w \in {OgWindowBefore, FaviconWindowBefore}, d \in Offsets }

\* fillers that put a two-byte character next to the end of the og window
\* of TagOgTitle
LeadOut ==
  { Pad(OgWindowAfter - (Len(TagOgTitle) - 6) - 1 + d) \o EAcute \o <<".">> : d \in Offsets }

\* fillers that put what follows next to the truncation offset
LongLeadIn ==
  { Pad(HeadLimit - Len(TagOgTitle) + d) : d \in Offsets }
  \cup { EAcute \o Pad(HeadLimit - Len(TagOgTitle) - 1 + d) : d \in Offsets }
  \cup { Pad(HeadLimit - 1 + d) : d \in Offsets }

LongFragments == { EAcute, TagOgTitle, TagTitle, TagLinkIcon }

LinkFragments == { TagLinkIcon, TagLinkIconNoHref, TagLinkShortcut, TagLinkApple }

ShortBodies ==
  { f1 \o f2 : f1 \in Fragments, f2 \in Fragments }
  \cup { pre \o f1 \o f2 : pre \in LeadIn, f1 \in Fragments, f2 \in Followers }
  \cup { f1 \o post : f1 \in Fragments, post \in LeadOut }
  \cup { f1 \o Pad(FaviconWindowAfter + d) \o f2 :
           f1 \in LinkFragments, f2 \in LinkFragments, d \in Offsets }

LongBodies == { pre \o f1 \o f2 : pre \in LongLeadIn, f1 \in LongFragments, f2 \in Followers }

\* the response bodies Response::text can yield
Bodies == ShortBodies \cup LongBodies

\* the url argument of the command
Urls ==
  { <<"h","t","t","p","s",":","/","/","e","x",".","c","o","m","/","p","a","g","e">> (* https://ex.com/page *), <<"h","t","t","p",":","/","/","e","x",".","c","o","m">> (* http://ex.com *), <<"e","x",".","c","o","m","/","p","a","g","e">> (* ex.com/page *) }

\* reqwest sends a request only to an absolute http(s) URL
CanRequest(u) == starts_with(u, <<"h","t","t","p",":","/","/">> (* http:// *)) \/ starts_with(u, <<"h","t","t","p","s",":","/","/">> (* https:// *))

Statuses == {200, 304, 404, 500}

TransportErrors == {"error sending request", "operation timed out", "too many redirects"}

NoArg == [kind |-> "", value |-> <<>>, url |-> <<>>]
NoOut == <<>>

(****************************** state machine ******************************)
Init ==
  /\ pc = "start"
  /\ url \in Urls
  /\ status = 0
  /\ html = <<>>
  /\ result = Pending
  /\ sends = 0
  /\ arg = NoArg
  /\ out = NoOut

\* lines 218-222: the client cannot be built
BuildFails ==
  /\ pc = "start"
  /\ pc' = "done"
  /\ result' = Err("Client error: ", "builder error")
  /\ UNCHANGED <<url, status, html, sends, arg, out>>

\* lines 218-229: the client is built and the GET is sent
Send ==
  /\ pc = "start"
  /\ pc' = "sending"
  /\ sends' = sends + 1
  /\ UNCHANGED <<url, status, html, result, arg, out>>

\* line 230: send() fails
SendFails ==
  /\ pc = "sending"
  /\ \E e \in TransportErrors :
       /\ (~CanRequest(url)) => e = "error sending request"
       /\ result' = Err("Netzwerkfehler: ", e)
  /\ pc' = "done"
  /\ UNCHANGED <<url, status, html, sends, arg, out>>

\* lines 230-234: a response arrives and its status is checked
Respond ==
  /\ pc = "sending"
  /\ CanRequest(url)
  /\ \E st \in Statuses :
       /\ status' = st
       /\ IF is_success(st)
          THEN pc' = "reading" /\ result' = result
          ELSE pc' = "done" /\ result' = Err("HTTP ", StatusDisplay(st))
  /\ UNCHANGED <<url, html, sends, arg, out>>

\* lines 236-239: text() fails
ReadFails ==
  /\ pc = "reading"
  /\ pc' = "done"
  /\ result' = Err("Fehler beim Lesen: ", "error decoding response body")
  /\ UNCHANGED <<url, status, html, sends, arg, out>>

\* lines 236-270: text() yields the body; the fields are extracted and returned
ReadAndExtract ==
  /\ pc = "reading"
  /\ \E b \in Bodies :
       /\ html' = b
       /\ result' = Extract(url, b)
  /\ pc' = "done"
  /\ UNCHANGED <<url, status, sends, arg, out>>

Next == BuildFails \/ Send \/ SendFails \/ Respond \/ ReadFails \/ ReadAndExtract

Spec == Init /\ [][Next]_vars

(***************** html_escape_decode called on its own *******************)
\* how many pieces an input of html_escape_decode is made of
MaxPieces == 3

DecodePieces ==
  { <<"&","a","m","p",";">> (* &amp; *), <<"&","l","t",";">> (* &lt; *), <<"&","g","t",";">> (* &gt; *), <<"&","q","u","o","t",";">> (* &quot; *), <<"&","#","3","9",";">> (* &#39; *), <<"&","#","x","2","7",";">> (* &#x27; *), <<"&","a","p","o","s",";">> (* &apos; *),
    <<"&","e","a","c","u","t","e",";">> (* &eacute; *), <<"l","t",";">> (* lt; *), <<"a","m","p",";">> (* amp; *), <<"C","a","f">> (* Caf *), <<" ">> }

RECURSIVE PiecesUpTo(_)
PiecesUpTo(n) ==
  IF n = 0 THEN { <<>> }
  ELSE PiecesUpTo(n - 1) \cup { p \o s : p \in DecodePieces, s \in PiecesUpTo(n - 1) }

DecodeInputs == PiecesUpTo(MaxPieces) \cup { <<"C","a","f","&","e","a","c","u","t","e",";"," ","&","a","m","p",";"," ","B","a","r">> (* Caf&eacute; &amp; Bar *) }

InitDecode ==
  /\ pc = "call"
  /\ arg \in [kind : {"text"}, value : DecodeInputs, url : { <<>> }]
  /\ out = NoOut
  /\ url = <<>> /\ status = 0 /\ html = <<>> /\ result = Pending /\ sends = 0

\* lines 197-205
Decode ==
  /\ pc = "call"
  /\ arg.kind = "text"
  /\ out' = html_escape_decode(arg.value)
  /\ pc' = "returned"
  /\ UNCHANGED <<url, status, html, result, sends, arg>>

SpecDecode == InitDecode /\ [][Decode]_vars

(****************** the two absolutizations on their own ******************)
ValueHeads == { <<>>, <<"/">>, <<"/","/">> (* // *), <<"h","t","t","p">> (* http *), <<"h","t","t","p","s",":","/","/">> (* https:// *), <<".">> }
ValueTails == { <<>>, <<"i","m","g","/","x",".","p","n","g">> (* img/x.png *), <<"c",".","i","o","/","i">> (* c.io/i *), <<"d",".","p","n","g">> (* d.png *) }
Values == { h \o t : h \in ValueHeads, t \in ValueTails }

ResolveUrls ==
  { <<"h","t","t","p","s",":","/","/","e","x",".","c","o","m","/","p","a","g","e">> (* https://ex.com/page *), <<"h","t","t","p",":","/","/","e","x",".","c","o","m">> (* http://ex.com *), <<"h","t","t","p","s",":","/","/","e","x",".","c","o","m","/">> (* https://ex.com/ *), <<"h","t","t","p","s",":","/","/","/","e","x",".","c","o","m","/","p">> (* https:///ex.com/p *),
    <<"h","t","t","p",":","/","/","e","x",".","c","o","m","/","a","/","b","/">> (* http://ex.com/a/b/ *) }

InitResolve ==
  /\ pc = "call"
  /\ arg \in [kind : {"og:image", "href"}, value : Values, url : ResolveUrls]
  /\ arg.kind = "og:image" => arg.value # <<>>      \* line 135: extract_og yields no empty value
  /\ out = NoOut
  /\ url = <<>> /\ status = 0 /\ html = <<>> /\ result = Pending /\ sends = 0

\* lines 248, 251-261
ResolveImageValue ==
  /\ pc = "call"
  /\ arg.kind = "og:image"
  /\ out' = ResolveOgImage(arg.value, get_base_url(arg.url))
  /\ pc' = "returned"
  /\ UNCHANGED <<url, status, html, result, sends, arg>>

\* lines 248, 176-186
ResolveHref ==
  /\ pc = "call"
  /\ arg.kind = "href"
  /\ out' = ResolveFaviconHref(arg.value, get_base_url(arg.url))
  /\ pc' = "returned"
  /\ UNCHANGED <<url, status, html, result, sends, arg>>

NextResolve == ResolveImageValue \/ ResolveHref

SpecResolve == InitResolve /\ [][NextResolve]_vars

(************************ what the claims speak of *************************)
\* the body was read: the command ran its extraction
BodyRead == pc = "done" /\ result.kind \in {"Ok", "Panic"}

\* the command returned an OgMetadata
Returned == pc = "done" /\ result.kind = "Ok"

\* the text the extraction ran on
HeadText == html_head(html)

OccursAt(s, p, i) == i + Len(p) <= Len(s) /\ MatchAt(s, p, i)

Least(S) == CHOOSE i \in S : \A j \in S : i <= j

OgTitle == <<"o","g",":","t","i","t","l","e">> (* og:title *)
OgProperties == { <<"o","g",":","t","i","t","l","e">> (* og:title *), <<"o","g",":","d","e","s","c","r","i","p","t","i","o","n">> (* og:description *), <<"o","g",":","i","m","a","g","e">> (* og:image *), <<"o","g",":","s","i","t","e","_","n","a","m","e">> (* og:site_name *) }

HasScheme(v) == starts_with(v, <<"h","t","t","p",":","/","/">> (* http:// *)) \/ starts_with(v, <<"h","t","t","p","s",":","/","/">> (* https:// *))

\* a tag <meta property="og:title" content="X"> starts at offset i of h, X not empty
OgTitleOpen == <<"<","m","e","t","a"," ","p","r","o","p","e","r","t","y","=","\"","o","g",":","t","i","t","l","e","\""," ","c","o","n","t","e","n","t","=","\"">> (* <meta property="og:title" content=" *)

OgTitleValueAt(h, i) ==
  LET rest == SliceFrom(h, i + Len(OgTitleOpen))
  IN  SliceTo(rest, find(rest, <<"\"">>))

IsOgTitleTagAt(h, i) ==
  /\ OccursAt(h, OgTitleOpen, i)
  /\ LET rest == SliceFrom(h, i + Len(OgTitleOpen))
         q == find(rest, <<"\"">>)
     IN  q # NotFound /\ q > 0 /\ OccursAt(rest, <<"\"",">">> (* "> *), q)

OgTitleTagEnd(h, i) == i + Len(OgTitleOpen) + Len(OgTitleValueAt(h, i)) + 2

(* C1: for every text that holds a tag <meta property="og:title" content="X">
   with X not empty, extract_og of "og:title" returns X decoded, whatever
   stands before or after the tag. *)
C1_ReturnsTagContent ==
  (BodyRead /\ HeadText.tag = "Some") =>
    \A i \in 0..(Len(HeadText.val) - 1) :
      IsOgTitleTagAt(HeadText.val, i) =>
        extract_og(HeadText.val, OgTitle) = Some(html_escape_decode(OgTitleValueAt(HeadText.val, i)))

(* C2: in every OgMetadata returned for an http(s) request URL, favicon and,
   when present, image begin with http:// or https://. *)
C2_AbsoluteUrls ==
  (Returned /\ CanRequest(url)) =>
    /\ result.meta.favicon.tag = "Some" /\ HasScheme(result.meta.favicon.val)
    /\ result.meta.image.tag = "Some" => HasScheme(result.meta.image.val)

(* C3: once the body has been read the command returns an OgMetadata: the
   extraction never aborts, whatever the body. *)
C3_ExtractionNeverAborts ==
  (pc = "done" /\ result.kind # "Err") => result.kind = "Ok"

\* the tag the claim C9 says is read: the one that starts at the last "<meta"
\* before the first occurrence of the marker, inside the window
C9_ClaimedContent(h, property) ==
  LET meta_start == find(h, PropertyPattern(property))
  IN
  IF meta_start = NotFound THEN None
  ELSE
    LET window_start == OgWindowStart(meta_start)
        window == Slice(h, window_start, OgWindowEnd(h, meta_start))
        tag_start == rfind(SliceTo(window, meta_start - window_start), <<"<","m","e","t","a">> (* <meta *))
    IN  IF tag_start = NotFound THEN None ELSE ContentOfTag(SliceFrom(window, tag_start))

(* C9: extract_og reads the content of the tag that starts at the nearest
   "<meta" at or before the first occurrence of the marker, cut at its first
   ">": never a value of a tag that starts after the marker, and not-found
   when no "<meta" lies in the 200 bytes before the marker. *)
C9_ReadsEnclosingTag ==
  Returned =>
    \A p \in OgProperties : extract_og(HeadText.val, p) = C9_ClaimedContent(HeadText.val, p)

\* the trimmed, decoded text of the first <title> element, if it is not empty
C4_TitleText(h) ==
  LET opens == {i \in 0..(Len(h) - 1) : OccursAt(h, <<"<","t","i","t","l","e">> (* <title *), i)}
  IN
  IF opens = {} THEN None
  ELSE
    LET closers == {j \in Least(opens)..(Len(h) - 1) : h[j + 1] = ">"}
    IN
    IF closers = {} THEN None
    ELSE
      LET from == Least(closers) + 1
          ends == {k \in from..(Len(h) - 1) : OccursAt(h, <<"<","/","t","i","t","l","e",">">> (* </title> *), k)}
      IN
      IF ends = {} THEN None
      ELSE LET text == trim(Slice(h, from, Least(ends)))
           IN  IF text = <<>> THEN None ELSE Some(html_escape_decode(text))

(* C4: title is extract_og("og:title") when that yields a value, otherwise the
   text of the first <title> element, otherwise absent; an og:title tag whose
   content is empty or cannot be read falls through to the <title> text. *)
C4_TitleFallsThrough ==
  Returned =>
    /\ result.meta.title =
         IF extract_og(HeadText.val, OgTitle).tag = "Some"
         THEN extract_og(HeadText.val, OgTitle) ELSE C4_TitleText(HeadText.val)
    /\ C9_ClaimedContent(HeadText.val, OgTitle).tag = "None" =>
         result.meta.title = C4_TitleText(HeadText.val)

(* C5: every run ends in one of four outcomes: "Netzwerkfehler: ...",
   "HTTP <status>", "Fehler beim Lesen: ..." or an OgMetadata. *)
C5_FourOutcomes ==
  pc = "done" =>
    \/ result.kind = "Err" /\ result.error.prefix = "Netzwerkfehler: "
    \/ result.kind = "Err" /\ result.error.prefix = "HTTP "
    \/ result.kind = "Err" /\ result.error.prefix = "Fehler beim Lesen: "
    \/ result.kind = "Ok"

(* C5, amended: a run ends in exactly one of "Client error: ..." (nothing was
   sent), "Netzwerkfehler: ..." (no response), "HTTP <status>" (a status
   outside 200..299), "Fehler beim Lesen: ..." (a 2xx status, no body), or,
   with a 2xx status and the body read, an OgMetadata or the abort of C3; an
   error carries no OgMetadata, nothing is extracted before the status check
   and the body read, and the GET is sent at most once. *)
C5_Outcomes ==
  /\ sends <= 1
  /\ pc # "done" => result = Pending
  /\ result.kind = "Err" => result.meta = NoMeta
  /\ pc = "done" =>
       \/ /\ result.kind = "Err" /\ result.error.prefix = "Client error: "
          /\ sends = 0 /\ status = 0 /\ html = <<>>
       \/ /\ result.kind = "Err" /\ result.error.prefix = "Netzwerkfehler: "
          /\ sends = 1 /\ status = 0 /\ html = <<>>
       \/ /\ result.kind = "Err" /\ result.error.prefix = "HTTP "
          /\ result.error.detail = StatusDisplay(status)
          /\ sends = 1 /\ status # 0 /\ ~(200 <= status /\ status <= 299) /\ html = <<>>
       \/ /\ result.kind = "Err" /\ result.error.prefix = "Fehler beim Lesen: "
          /\ sends = 1 /\ 200 <= status /\ status <= 299 /\ html = <<>>
       \/ /\ result.kind \in {"Ok", "Panic"}
          /\ sends = 1 /\ 200 <= status /\ status <= 299

C5_Witness ==
  pc = "done" /\ result.kind = "Err" /\ result.error.prefix = "Client error: "

\* how many bytes the first n characters of s take
ContinuationsIn(s, k) == Cardinality({i \in 1..k : s[i] \in ContinuationBytes})

CharPrefixLen(s, n) ==
  IF Len(s) - ContinuationsIn(s, Len(s)) <= n THEN Len(s)
  ELSE CHOOSE k \in n..Len(s) : k - ContinuationsIn(s, k) = n /\ s[k + 1] \notin ContinuationBytes

(* C6: the extraction runs on exactly the first 20,000 characters of the body
   (the whole body when shorter), and a tag that lies within the first 20,000
   characters is in the text the extraction runs on, multi-byte characters or
   not. *)
C6_FirstCharacters ==
  (BodyRead /\ HeadText.tag = "Some") =>
    /\ HeadText.val = SliceTo(html, CharPrefixLen(html, HeadLimit))
    /\ \A i \in 0..(Len(html) - 1) :
         (IsOgTitleTagAt(html, i) /\ OgTitleTagEnd(html, i) <= CharPrefixLen(html, HeadLimit))
           => IsOgTitleTagAt(HeadText.val, i)

MarkerOccurs(h, k) == find(h, FaviconPatterns[k]) # NotFound

C10_Fallback(u) == trim_end_matches(get_base_url(u), "/") \o <<"/","f","a","v","i","c","o","n",".","i","c","o">> (* /favicon.ico *)

(* C10: the highest-priority marker that occurs anywhere alone decides the
   favicon; <origin>/favicon.ico is returned if and only if none of the three
   markers occurs; the favicon is never absent. *)
C10_HighestMarkerDecides ==
  Returned =>
    LET occurring == {k \in 1..Len(FaviconPatterns) : MarkerOccurs(HeadText.val, k)}
    IN  /\ result.meta.favicon.tag = "Some"
        /\ (result.meta.favicon.val = C10_Fallback(url)) <=> (occurring = {})
        /\ occurring # {} =>
             result.meta.favicon =
               FaviconForPattern(HeadText.val, get_base_url(url), FaviconPatterns[Least(occurring)])

\* the markers from whose window an href can be read
C10_Yielding(h, u) ==
  {k \in 1..Len(FaviconPatterns) :
     MarkerOccurs(h, k) /\ FaviconForPattern(h, get_base_url(u), FaviconPatterns[k]).tag = "Some"}

(* C10, amended: the highest-priority marker from whose window an href can be
   read (after the last "<link" of the window) decides the favicon, whatever
   the document order; a marker that occurs but yields no href is passed over
   for the next one; <origin>/favicon.ico is returned when no marker yields an
   href; a returned OgMetadata always has a favicon. *)
C10_HighestYieldingMarkerDecides ==
  Returned =>
    LET yielding == C10_Yielding(HeadText.val, url)
    IN  /\ result.meta.favicon.tag = "Some"
        /\ yielding = {} => result.meta.favicon.val = C10_Fallback(url)
        /\ yielding # {} =>
             result.meta.favicon =
               FaviconForPattern(HeadText.val, get_base_url(url), FaviconPatterns[Least(yielding)])

C10_Witness ==
  /\ Returned
  /\ MarkerOccurs(HeadText.val, 1)
  /\ 1 \notin C10_Yielding(HeadText.val, url)
  /\ 2 \in C10_Yielding(HeadText.val, url)
  /\ find(HeadText.val, FaviconPatterns[2]) < find(HeadText.val, FaviconPatterns[1])

\* the origin the claim C7 describes: the URL up to the first "/" after "://"
C7_Origin(u) ==
  LET seps == {i \in 0..(Len(u) - 1) : OccursAt(u, <<":","/","/">> (* :// *), i)}
  IN
  IF seps = {} THEN u
  ELSE LET slashes == {j \in (Least(seps) + 3)..(Len(u) - 1) : u[j + 1] = "/"}
       IN  IF slashes = {} THEN u ELSE SubSeq(u, 1, Least(slashes))

\* s without the "/" it ends with
C7_StripTrailing(s) ==
  LET keep == {k \in 0..Len(s) : (k = 0 \/ s[k] # "/") /\ \A j \in (k + 1)..Len(s) : s[j] = "/"}
  IN  SubSeq(s, 1, Least(keep))

C7_Rule(v, u) ==
  IF Len(v) >= 4 /\ SubSeq(v, 1, 4) = <<"h","t","t","p">> (* http *) THEN v
  ELSE IF Len(v) >= 2 /\ SubSeq(v, 1, 2) = <<"/","/">> (* // *) THEN <<"h","t","t","p","s",":">> (* https: *) \o v
  ELSE C7_StripTrailing(C7_Origin(u)) \o <<"/">> \o (IF v # <<>> /\ v[1] = "/" THEN Tail(v) ELSE v)

(* C7: an og:image value and a favicon href are made absolute by the same
   rule: kept when it starts with "http"; "https:" put before it when it
   starts with "//"; otherwise origin, "/", and the value without its leading
   "/", the origin being the URL up to the first "/" after "://" (all of it
   when there is none) without its trailing "/".  "/img/x.png" on
   https://ex.com/page gives https://ex.com/img/x.png, with one "/" between
   origin and path. *)
C7_SameRule ==
  pc = "returned" =>
    /\ out = C7_Rule(arg.value, arg.url)
    /\ (arg.value = <<"/","i","m","g","/","x",".","p","n","g">> (* /img/x.png *) /\ arg.url = <<"h","t","t","p","s",":","/","/","e","x",".","c","o","m","/","p","a","g","e">> (* https://ex.com/page *))
         => out = <<"h","t","t","p","s",":","/","/","e","x",".","c","o","m","/","i","m","g","/","x",".","p","n","g">> (* https://ex.com/img/x.png *)
    /\ (~starts_with(arg.value, <<"h","t","t","p">> (* http *)) /\ ~starts_with(arg.value, <<"/","/">> (* // *))) =>
         LET origin == C7_StripTrailing(C7_Origin(arg.url))
         IN  /\ SubSeq(out, 1, Len(origin) + 1) = origin \o <<"/">>
             /\ (Len(out) > Len(origin) + 1 => out[Len(origin) + 2] # "/")
             /\ (origin # <<>> => origin[Len(origin)] # "/")

C7_Witness ==
  /\ pc = "returned"
  /\ arg.kind = "og:image"
  /\ arg.value = <<"/","i","m","g","/","x",".","p","n","g">> (* /img/x.png *)
  /\ arg.url = <<"h","t","t","p","s",":","/","/","e","x",".","c","o","m","/","p","a","g","e">> (* https://ex.com/page *)
  /\ out = <<"h","t","t","p","s",":","/","/","e","x",".","c","o","m","/","i","m","g","/","x",".","p","n","g">> (* https://ex.com/img/x.png *)

\* the escapes of the claim C8 and what each stands for
Escapes ==
  << <<<<"&","a","m","p",";">> (* &amp; *), <<"&">>>>, <<<<"&","l","t",";">> (* &lt; *), <<"<">>>>, <<<<"&","g","t",";">> (* &gt; *), <<">">>>>, <<<<"&","q","u","o","t",";">> (* &quot; *), <<"\"">>>>,
     <<<<"&","#","3","9",";">> (* &#39; *), <<"'">>>>, <<<<"&","#","x","2","7",";">> (* &#x27; *), <<"'">>>>, <<<<"&","a","p","o","s",";">> (* &apos; *), <<"'">>>> >>

\* the input read once from left to right: an escape that stands in the input
\* becomes its character, every other byte stays
RECURSIVE C8_DecodedOnce(_)
C8_DecodedOnce(s) ==
  IF s = <<>> THEN <<>>
  ELSE LET here == {k \in 1..Len(Escapes) : starts_with(s, Escapes[k][1])}
       IN  IF here = {} THEN <<s[1]>> \o C8_DecodedOnce(Tail(s))
           ELSE LET k == Least(here)
                IN  Escapes[k][2] \o C8_DecodedOnce(SliceFrom(s, Len(Escapes[k][1])))

(* C8: html_escape_decode replaces every &amp; &lt; &gt; &quot; &#39; &#x27;
   &apos; of its input by its character and leaves every other byte as it is:
   only the escapes present in the input are decoded, each once. *)
C8_DecodesInputEscapesOnce ==
  pc = "returned" => out = C8_DecodedOnce(arg.value)
====
